---------------------------- MODULE Spec2Model ----------------------------
(***************************************************************************)
(* A model of tartiflette_asgi/_endpoints.py: the HTTP GraphQL endpoint    *)
(* (GraphQLEndpoint.dispatch / get / post / _get_response), the GraphiQL   *)
(* page endpoint and the websocket SubscriptionEndpoint together with the  *)
(* subscription session it drives.                                         *)
(*                                                                         *)
(* Python objects live in a heap of dictionaries so that aliasing, shallow *)
(* copies and deep copies of config.context are different things.          *)
(***************************************************************************)
EXTENDS Integers, Sequences, FiniteSets, TLC

\* ------------------------------------------------------------------ bounds
NumRequests == 2      \* HTTP requests that may be inside engine.execute at once
MaxTouches == 1       \* writes a resolver makes to the context it was handed
MaxTasks == 2         \* operations a connection registers in its lifetime
MaxItems == 1         \* results an operation's engine stream yields
MaxRecv == 3          \* frames the client sends on a connection

\* ------------------------------------------------------------ python values
None == "None"

\* A dict is a function from a finite set of keys; {} is the empty function.
EmptyDict == [k \in {} |-> None]

HasKey(d, k) == k \in DOMAIN d

\* dict.get(k, default)
Get(d, k, default) == IF k \in DOMAIN d THEN d[k] ELSE default

\* d[k] = v on a copy of d
Put(d, k, v) == [x \in (DOMAIN d) \cup {k} |-> IF x = k THEN v ELSE d[x]]

\* del d[k] on a copy of d
Del(d, k) == [x \in (DOMAIN d) \ {k} |-> d[x]]

\* {**a, **b} and a.update(b): b's bindings win
Update(a, b) == [x \in (DOMAIN a) \cup (DOMAIN b) |-> IF x \in DOMAIN b THEN b[x] ELSE a[x]]

\* `needle in header` for a header value kept as the sequence of its segments
Contains(header, needle) == \E i \in 1..Len(header) : header[i] = needle

\* --------------------------------------------------------------------- heap
\* Object identities.  Atoms (strings that are not references) are immutable.
RefNames == <<"@0", "@1", "@2", "@3", "@4", "@5", "@6", "@7", "@8", "@9",
              "@10", "@11", "@12", "@13", "@14", "@15">>

HeapSize == 2 * (NumRequests + 2)

Refs == {RefNames[i] : i \in 1..HeapSize}

IsRef(v) == v \in Refs

Free == [live |-> FALSE, dict |-> EmptyDict]

Obj(d) == [live |-> TRUE, dict |-> d]

\* The allocator gives each coroutine the identities of its own arena: the
\* lowest unused one.  Arena 0 holds the configuration, arena n the objects
\* of request slot n, the last arena those of the websocket connection.
Arena(n) == {RefNames[2 * n + 1], RefNames[2 * n + 2]}

ConnectionArena == NumRequests + 1

Alloc(h, arena) ==
    RefNames[CHOOSE i \in 1..HeapSize :
                /\ RefNames[i] \in Arena(arena) /\ ~h[RefNames[i]].live
                /\ \A j \in 1..(i - 1) : RefNames[j] \in Arena(arena) => h[RefNames[j]].live]

FreeCount(h, arena) == Cardinality({r \in Arena(arena) : ~h[r].live})

\* Everything reachable from r, r included.
RECURSIVE Reach(_, _)
Reach(h, r) ==
    {r} \cup UNION {Reach(h, h[r].dict[k]) : k \in {x \in DOMAIN h[r].dict : IsRef(h[r].dict[x])}}

\* The value of r with every reference replaced by the value it points to.
RECURSIVE DeepValue(_, _)
DeepValue(h, r) ==
    [k \in DOMAIN h[r].dict |->
        IF IsRef(h[r].dict[k]) THEN DeepValue(h, h[r].dict[k]) ELSE <<h[r].dict[k]>>]

\* Dropping the last reference to r frees it and what only it reaches.
Release(h, r) == [x \in Refs |-> IF x \in Reach(h, r) THEN Free ELSE h[x]]

\* copy.deepcopy(obj): a new dict whose dict-valued entries are deep copies.
\* Returns the heap after the copy and the identity of the copy.
RECURSIVE DeepCopy(_, _, _)
RECURSIVE DeepCopyKeys(_, _, _, _, _)
DeepCopyKeys(h, src, dst, ks, arena) ==
    IF ks = {} THEN [heap |-> h, ref |-> dst]
    ELSE LET k == CHOOSE x \in ks : TRUE
             v == h[src].dict[k]
         IN IF IsRef(v)
            THEN LET sub == DeepCopy(h, v, arena)
                 IN DeepCopyKeys([sub.heap EXCEPT ![dst].dict = Put(@, k, sub.ref)],
                                 src, dst, ks \ {k}, arena)
            ELSE DeepCopyKeys([h EXCEPT ![dst].dict = Put(@, k, v)],
                              src, dst, ks \ {k}, arena)

\* dict(obj): a new dict sharing the values of the old one.
ShallowCopy(h, r, arena) ==
    LET dst == Alloc(h, arena) IN [heap |-> [h EXCEPT ![dst] = Obj(h[r].dict)], ref |-> dst]

DeepCopy(h, r, arena) ==
    LET dst == Alloc(h, arena)
    IN DeepCopyKeys([h EXCEPT ![dst] = Obj(EmptyDict)], r, dst, DOMAIN h[r].dict, arena)

\* The number of identities a deep copy of r takes.
CopySize(h, r) == Cardinality(Reach(h, r))


\* ------------------------------------------------------------ configuration
\* get_graphql_config(conn): the GraphQLConfig the middleware put in the scope.
\* config.context is one dict shared by every request and connection.
ConfigContext == RefNames[1]

NestedOptions == RefNames[2]

GraphiQLSettings ==
    { [set |-> FALSE, path |-> None],            \* graphiql disabled
      [set |-> TRUE, path |-> None],             \* served at the GraphQL path
      [set |-> TRUE, path |-> "/graphiql"] }     \* served at its own path

\* The shapes of config.context the model starts from.
InitialHeaps ==
    { [r \in Refs |-> IF r = ConfigContext THEN Obj([k \in {"db"} |-> "pool"]) ELSE Free],
      [r \in Refs |-> IF r = ConfigContext
                        THEN Obj([k \in {"db", "opts"} |->
                                     IF k = "db" THEN "pool" ELSE NestedOptions])
                      ELSE IF r = NestedOptions THEN Obj([k \in {"debug"} |-> "off"])
                      ELSE Free] }

\* --------------------------------------------------------------- json.loads
JNone == [t |-> "None"]

JDict(d) == [t |-> "dict", d |-> d]

JList == [t |-> "list"]

Query == "{ hello }"

ValidVariables == "{\"x\": 1}"

InvalidVariables == "{x"

BodyQuery == "{\"query\": \"{ hello }\"}"

BodyQueryVariables == "{\"query\": \"{ hello }\", \"variables\": {\"y\": 2}}"

BodyEmptyObject == "{}"

BodyArray == "[]"

\* json.loads(text): the decoded value, or JSONDecodeError.
JsonLoads(text) ==
    CASE text = ValidVariables -> [ok |-> TRUE, value |-> JDict([k \in {"x"} |-> "1"])]
      [] text = BodyQuery -> [ok |-> TRUE, value |-> JDict([k \in {"query"} |-> Query])]
      [] text = BodyQueryVariables ->
            [ok |-> TRUE,
             value |-> JDict([k \in {"query", "variables"} |->
                                IF k = "query" THEN Query
                                ELSE JDict([j \in {"y"} |-> "2"])])]
      [] text = BodyEmptyObject -> [ok |-> TRUE, value |-> JDict(EmptyDict)]
      [] text = BodyArray -> [ok |-> TRUE, value |-> JList]
      [] OTHER -> [ok |-> FALSE, value |-> JNone]

\* ----------------------------------------------------------------- requests
TextHtml == <<"text/html", ",application/xhtml+xml">>

AnyAccept == <<"*/*">>

ApplicationJson == <<"application/json">>

ApplicationGraphql == <<"application/graphql", "; charset=utf-8">>

TextPlain == <<"text/plain">>

NoHeader == <<>>

\* request.query_params: the decoded query string
QueryStrings ==
    { EmptyDict,
      [k \in {"query"} |-> Query],
      [k \in {"variables"} |-> ValidVariables],
      [k \in {"variables"} |-> InvalidVariables],
      [k \in {"query", "variables"} |-> IF k = "query" THEN Query ELSE ValidVariables],
      [k \in {"query", "variables"} |-> IF k = "query" THEN Query ELSE InvalidVariables] }

Request(m, a, ct, qs, b) ==
    [method |-> m, accept |-> a, content_type |-> ct, query_params |-> qs, body |-> b]

\* The requests the endpoint is driven with.
Requests ==
    {Request(m, TextHtml, NoHeader, EmptyDict, "") : m \in {"GET", "POST"}}
    \cup {Request("GET", AnyAccept, NoHeader, qs, "") : qs \in QueryStrings}
    \cup {Request("POST", AnyAccept, ApplicationJson, qs, b) :
            qs \in {EmptyDict, [k \in {"query"} |-> Query]},
            b \in {BodyQuery, BodyQueryVariables, BodyEmptyObject, BodyArray, "{\"query\""}}
    \cup {Request("POST", AnyAccept, ApplicationJson, qs, BodyQuery) :
            qs \in {[k \in {"variables"} |-> ValidVariables],
                    [k \in {"variables"} |-> InvalidVariables]}}
    \cup {Request("POST", AnyAccept, ApplicationGraphql, qs, Query) :
            qs \in {EmptyDict, [k \in {"variables"} |-> InvalidVariables]}}
    \cup {Request("POST", AnyAccept, ct, qs, "") :
            ct \in {TextPlain, NoHeader}, qs \in QueryStrings}

\* The requests that differ in how they reach, or miss, engine.execute.
ContextRequests ==
    { Request("POST", AnyAccept, ApplicationJson, EmptyDict, BodyQueryVariables),
      Request("POST", AnyAccept, TextPlain, EmptyDict, "") }

\* ---------------------------------------------------------------- responses
JSONResponse(content, status, background) ==
    [type |-> "json", status |-> status, content |-> content, background |-> background]

PlainTextResponse(text, status) ==
    [type |-> "text", status |-> status, content |-> text, background |-> None]

HTMLResponse(html) ==
    [type |-> "html", status |-> 200, content |-> html, background |-> None]

\* What a handler has done when it first suspends for good or returns:
\* returned a response, raised, or gone on to _get_response.
Responded(resp) == [kind |-> "response", response |-> resp]

Raised(exc) == [kind |-> "raise", exc |-> exc]

GetResponse(data, variables) == [kind |-> "_get_response", data |-> data, variables |-> variables]

InvalidVariablesResponse ==
    JSONResponse([k \in {"error"} |-> "Unable to decode variables: Invalid JSON."], 400, None)

\* GraphQLEndpoint.get
GraphQLEndpointGet(request) ==
    IF HasKey(request.query_params, "variables")
        /\ ~JsonLoads(request.query_params["variables"]).ok
    THEN Responded(InvalidVariablesResponse)
    ELSE GetResponse(request.query_params,
                     IF HasKey(request.query_params, "variables")
                     THEN JsonLoads(request.query_params["variables"]).value
                     ELSE JNone)

\* post whose last branch hands the query string to _get_response instead of
\* answering 415.
GraphQLEndpointPostNo415(request) ==
    LET content_type == request.content_type
        qsVariables == IF HasKey(request.query_params, "variables")
                       THEN JsonLoads(request.query_params["variables"])
                       ELSE [ok |-> TRUE, value |-> JNone]
        json == JsonLoads(request.body)
    IN IF ~qsVariables.ok THEN Responded(InvalidVariablesResponse)
       ELSE IF Contains(content_type, "application/json")
            THEN IF ~json.ok
                 THEN Responded(JSONResponse([k \in {"error"} |-> "Invalid JSON."], 400, None))
                 ELSE IF json.value.t # "dict"
                      THEN Raised("AttributeError")
                      ELSE GetResponse(json.value.d,
                                       Get(json.value.d, "variables", qsVariables.value))
       ELSE IF Contains(content_type, "application/graphql")
            THEN GetResponse([k \in {"query"} |-> request.body], qsVariables.value)
       ELSE GetResponse(request.query_params, qsVariables.value)

\* GraphQLEndpoint.post
GraphQLEndpointPost(request) ==
    LET content_type == request.content_type
        qsVariables == IF HasKey(request.query_params, "variables")
                       THEN JsonLoads(request.query_params["variables"])
                       ELSE [ok |-> TRUE, value |-> JNone]
        json == JsonLoads(request.body)
    IN IF ~qsVariables.ok THEN Responded(InvalidVariablesResponse)
       ELSE IF Contains(content_type, "application/json")
            THEN IF ~json.ok
                 THEN Responded(JSONResponse([k \in {"error"} |-> "Invalid JSON."], 400, None))
                 ELSE IF json.value.t # "dict"
                      THEN Raised("AttributeError")   \* data.get on a non-dict
                      ELSE GetResponse(json.value.d,
                                       Get(json.value.d, "variables", qsVariables.value))
       ELSE IF Contains(content_type, "application/graphql")
            THEN GetResponse([k \in {"query"} |-> request.body], qsVariables.value)
       ELSE IF HasKey(request.query_params, "query")
            THEN GetResponse(request.query_params, qsVariables.value)
       ELSE Responded(PlainTextResponse("Unsupported Media Type", 415))

\* GraphiQLEndpoint, reached through HTTPEndpoint.dispatch: only get is defined.
GraphiQLEndpoint(request) ==
    IF request.method = "GET"
    THEN Responded(HTMLResponse("graphiql.html"))
    ELSE Responded(PlainTextResponse("Method Not Allowed", 405))

\* GraphQLEndpoint.dispatch, up to the handler's entry into _get_response.
Dispatch(cfg, request) ==
    IF Contains(request.accept, "text/html")
    THEN IF cfg.graphiql.set /\ cfg.graphiql.path = None
         THEN GraphiQLEndpoint(request)
         ELSE Responded(PlainTextResponse("Not Found", 404))
    ELSE IF request.method = "GET" THEN GraphQLEndpointGet(request)
         ELSE GraphQLEndpointPost(request)

\* data.get("query", "") in place of data["query"]: no KeyError, no 400.
ExtractQueryDefault(data) == [ok |-> TRUE, query |-> Get(data, "query", "")]

\* _get_response, lines 80-83: the query, or the 400 that stands for KeyError.
ExtractQuery(data) ==
    IF HasKey(data, "query") THEN [ok |-> TRUE, query |-> data["query"]]
    ELSE [ok |-> FALSE, query |-> None]

NoQueryResponse == PlainTextResponse("No GraphQL query found in the request", 400)

RequestHandles == <<"request#1", "request#2", "request#3", "request#4">>

BackgroundHandles == <<"background#1", "background#2", "background#3", "background#4">>

\* The transport-derived fields laid over the copy (line 89).
Overlay(r) ==
    [k \in {"req", "background"} |->
        IF k = "req" THEN RequestHandles[r] ELSE BackgroundHandles[r]]

\* _get_response, lines 85-89: the context handed to the engine.  Line 87
\* builds a dict that line 88 throws away; config.context is only read.
BuildContext(h, cfg, r) ==
    LET copied == DeepCopy(h, cfg.context, r)
    IN [heap |-> [copied.heap EXCEPT ![copied.ref].dict = Update(@, Overlay(r))],
        ref |-> copied.ref]

\* format_errors(errors): one formatted entry per error
FormatErrors(errors) == [i \in 1..Len(errors) |-> <<"formatted", errors[i]>>]

\* What engine.execute may return.
EngineResults ==
    { [k \in {"data"} |-> <<"hello">>],
      [k \in {"data", "errors"} |-> IF k = "data" THEN <<"hello">> ELSE <<"resolver failed">>],
      [k \in {"data", "errors"} |-> IF k = "data" THEN <<None>> ELSE <<"syntax error">>] }

\* _get_response with the status fixed at 200.
BuildResponseAlways200(result, background) ==
    LET has_errors == HasKey(result, "errors")
        content == IF has_errors
                   THEN [k \in {"data", "errors"} |->
                            IF k = "data" THEN result["data"]
                            ELSE FormatErrors(result["errors"])]
                   ELSE [k \in {"data"} |-> result["data"]]
    IN JSONResponse(content, 200, background)

\* _get_response, lines 99-105
BuildResponse(result, background) ==
    LET has_errors == HasKey(result, "errors")
        content == IF has_errors
                   THEN [k \in {"data", "errors"} |->
                            IF k = "data" THEN result["data"]
                            ELSE FormatErrors(result["errors"])]
                   ELSE [k \in {"data"} |-> result["data"]]
        status == IF has_errors THEN 400 ELSE 200
    IN JSONResponse(content, status, background)


\* ==================================================================== state
VARIABLES
    heap,        \* the Python heap: identity -> dict
    config,      \* the GraphQLConfig: context (an identity), graphiql settings
    configured,  \* the value config.context was configured with
    http,        \* per request slot: the coroutine suspended in engine.execute
    handled,     \* the request GraphQLEndpoint.dispatch handled last, and what came of it
    conn,        \* the SubscriptionEndpoint of the websocket connection and its dispatch loop
    session      \* the GraphQLWSProtocol object of that connection

vars == <<heap, config, configured, http, handled, conn, session>>

Slots == 1..NumRequests

IdleSlot ==
    [pc |-> "idle", context |-> None, background |-> None,
     result |-> EmptyDict, response |-> PlainTextResponse("", 0)]

\* -------------------------------------------------------------- HTTP actions
\* A request arrives and GraphQLEndpoint.dispatch runs it up to its response,
\* or up to `await engine.execute(...)`, where the coroutine suspends holding
\* the context it built.  Everything before that reads only the request.
HandleRequest(request) ==
    LET outcome == Dispatch(config, request)
        extracted == ExtractQuery(outcome.data)
    IN IF outcome.kind # "_get_response"
       THEN /\ handled' = <<[request |-> request, outcome |-> outcome, executed |-> FALSE]>>
            /\ UNCHANGED <<heap, http>>
       ELSE IF ~extracted.ok
       THEN /\ handled' = <<[request |-> request, outcome |-> Responded(NoQueryResponse),
                             executed |-> FALSE]>>
            /\ UNCHANGED <<heap, http>>
       ELSE \E r \in Slots :
            /\ http[r].pc = "idle"
            /\ \A q \in 1..(r - 1) : http[q].pc # "idle"
            /\ FreeCount(heap, r) >= CopySize(heap, config.context)
            /\ LET built == BuildContext(heap, config, r)
               IN /\ heap' = built.heap
                  /\ http' = [http EXCEPT ![r] =
                        [IdleSlot EXCEPT !.pc = "executing",
                                         !.context = built.ref,
                                         !.background = BackgroundHandles[r]]]
            /\ handled' = <<[request |-> request,
                             outcome |-> [outcome EXCEPT !.kind = "engine.execute"],
                             executed |-> TRUE]>>

Arrive(requests) ==
    /\ \E request \in requests : HandleRequest(request)
    /\ UNCHANGED <<config, configured, conn, session>>

\* What a resolver may do to a dict it can reach from its context: bind a
\* new key, rebind a key, delete a key.
Writes(d) ==
    {Put(d, "user", "alice")}
    \cup {Put(d, k, "changed") : k \in {x \in DOMAIN d : x \in {"db", "debug"}}}
    \cup {Del(d, k) : k \in {x \in DOMAIN d : x \in {"db", "debug"}}}

\* The heaps one write through context ctx can leave.
Touched(h, ctx) ==
    UNION {{[h EXCEPT ![o].dict = d] : d \in Writes(h[o].dict)} : o \in Reach(h, ctx)} \ {h}

\* The heaps up to n writes through context ctx can leave.
RECURSIVE TouchedUpTo(_, _, _)
TouchedUpTo(h, ctx, n) ==
    IF n = 0 THEN {h}
    ELSE LET before == TouchedUpTo(h, ctx, n - 1)
         IN before \cup UNION {Touched(g, ctx) : g \in before}

\* engine.execute runs, its resolvers writing to the context they were given,
\* and returns; _get_response builds the response (99-105) and returns it:
\* its locals, the context among them, die.
EngineReturn(r) ==
    /\ http[r].pc = "executing"
    /\ \E result \in EngineResults :
          http' = [http EXCEPT ![r] =
                      [IdleSlot EXCEPT !.pc = "responded",
                                       !.result = result,
                                       !.response = BuildResponse(result, http[r].background)]]
    /\ heap' \in {Release(written, http[r].context) :
                      written \in TouchedUpTo(heap, http[r].context, MaxTouches)}
    /\ UNCHANGED <<config, configured, handled, conn, session>>

\* The response is sent.
Finish(r) ==
    /\ http[r].pc = "responded"
    /\ http' = [http EXCEPT ![r] = IdleSlot]
    /\ UNCHANGED <<heap, config, configured, handled, conn, session>>

\* =========================================================== subscriptions
\* GraphQLWSProtocol.name
ProtocolName == "graphql-ws"

OpIds == {"1", "2"}

Message(type, id) == [type |-> type, id |-> id]

\* The frames a client sends.
ClientMessages ==
    {Message("connection_init", None), Message("connection_terminate", None),
     Message("ping", None)}
    \cup {Message(t, x) : t \in {"start", "stop"}, x \in OpIds}

Frame(type, id, payload) == [type |-> type, id |-> id, payload |-> payload]

\* ------------------------------------------- the session (GraphQLWSProtocol)
\* GraphQLWSProtocol(websocket, engine, context): a session in state PENDING
\* with an empty registry.  registry[x] is the task registered for operation
\* id x, 0 when none is.
NewSession(context) ==
    [state |-> "PENDING", context |-> context, touches |-> 0,
     registry |-> [x \in OpIds |-> 0], tasks |-> <<>>, sent |-> <<>>,
     transport |-> "open", disconnects |-> 0]

NewTask(x) == [id |-> x, pc |-> "running", cancel |-> FALSE, items |-> 0,
               terminals |-> 0, late |-> 0]

\* The outbound sink: one frame written to the websocket.
Emit(s, frame) == [s EXCEPT !.sent = Append(@, frame)]

\* task.cancel() on the task of every operation in xs, which leave the registry.
Cancel(s, xs) ==
    [s EXCEPT !.tasks = [t \in DOMAIN s.tasks |->
                            IF \E x \in xs : s.registry[x] = t
                            THEN [s.tasks[t] EXCEPT !.cancel = TRUE] ELSE s.tasks[t]],
              !.registry = [x \in OpIds |-> IF x \in xs THEN 0 ELSE s.registry[x]]]

Registered(s) == {x \in OpIds : s.registry[x] # 0}

\* `start` without the registry check: a second task for a live id.
StartUnchecked(s, x) ==
    IF s.state # "ACKNOWLEDGED" THEN s
    ELSE [s EXCEPT !.tasks = Append(@, NewTask(x)), !.registry[x] = Len(s.tasks) + 1]

\* `start`: register a new operation, or answer `error` for a live id.
Start(s, x) ==
    IF s.state # "ACKNOWLEDGED" THEN s
    ELSE IF s.registry[x] # 0 THEN Emit(s, Frame("error", x, "duplicate operation id"))
    ELSE [s EXCEPT !.tasks = Append(@, NewTask(x)), !.registry[x] = Len(s.tasks) + 1]

\* `stop`: cancel, `complete`, deregister; a no-op for an id that is not live.
Stop(s, x) ==
    IF s.registry[x] = 0 THEN s
    ELSE LET t == s.registry[x]
             c == Cancel(s, {x})
         IN Emit([c EXCEPT !.tasks[t].terminals = @ + 1], Frame("complete", x, None))

\* Bulk teardown that forgets the registry but leaves the tasks running.
TeardownNoCancel(s) ==
    IF s.state = "TERMINATED" THEN s
    ELSE [s EXCEPT !.registry = [x \in OpIds |-> 0],
                   !.state = "TERMINATED", !.transport = "closed"]

\* Bulk teardown: cancel every registered operation, no `complete` frames.
Teardown(s) ==
    IF s.state = "TERMINATED" THEN s
    ELSE [Cancel(s, Registered(s)) EXCEPT !.state = "TERMINATED", !.transport = "closed"]

\* GraphQLWSProtocol.on_receive(message)
ProtocolOnReceive(s, message) ==
    CASE message.type = "connection_init" ->
            IF s.state = "PENDING"
            THEN [Emit(s, Frame("connection_ack", None, None)) EXCEPT !.state = "ACKNOWLEDGED"]
            ELSE Emit(s, Frame("connection_error", None, "already initialised"))
      [] message.type = "start" -> Start(s, message.id)
      [] message.type = "stop" -> Stop(s, message.id)
      [] message.type = "connection_terminate" -> Teardown(s)
      [] OTHER ->
            IF message.id # None
            THEN Emit(s, Frame("error", message.id, "unknown message type"))
            ELSE Emit(s, Frame("connection_error", None, "unknown message type"))

\* GraphQLWSProtocol.on_disconnect(close_code)
ProtocolOnDisconnect(s, close_code) ==
    [Teardown(s) EXCEPT !.disconnects = @ + 1]

\* A frame from task t: terminal frames and frames after task.cancel() are counted.
TaskEmit(s, t, type, payload) ==
    LET counted == [s EXCEPT !.tasks[t].terminals = IF type = "data" THEN @ ELSE @ + 1,
                             !.tasks[t].late = IF s.tasks[t].cancel THEN @ + 1 ELSE @,
                             !.tasks[t].items = IF type = "data" THEN @ + 1 ELSE @]
    IN Emit(counted, Frame(type, s.tasks[t].id, payload))

\* deregister(id) by task t: only its own registration.
Deregister(s, t) ==
    [s EXCEPT !.registry[s.tasks[t].id] = IF @ = t THEN 0 ELSE @]

\* The task's next step that does not look at its cancellation.
TaskStepUnchecked(s, t, event) ==
    CASE event = "item" -> TaskEmit(s, t, "data", "result")
      [] event = "end" ->
            [Deregister(TaskEmit(s, t, "complete", None), t) EXCEPT !.tasks[t].pc = "done"]
      [] OTHER ->
            [Deregister(TaskEmit(s, t, "error", "execution failed"), t)
                EXCEPT !.tasks[t].pc = "done"]

\* The operation's task resumes at its suspension point with the engine
\* stream's next event: an item, the end of the stream, or a failure.  A
\* cancelled task ends there without a frame.
TaskStep(s, t, event) ==
    IF s.tasks[t].cancel THEN [s EXCEPT !.tasks[t].pc = "cancelled"]
    ELSE TaskStepUnchecked(s, t, event)

\* ----------------------------------- the endpoint (SubscriptionEndpoint)
\* SubscriptionEndpoint.__init__: protocol is None until on_connect sets it.
\* pc is the place WebSocketEndpoint.dispatch has reached.
NoConnection ==
    [pc |-> "idle", offered |-> <<>>, accepted |-> FALSE, subprotocol |-> None,
     protocol |-> None, received |-> 0, close_code |-> 0,
     assertion |-> FALSE, late |-> FALSE]

NoSession == [NewSession(None) EXCEPT !.state = "none"]

\* The subprotocols a client offers in its handshake.
Offers == {<<"graphql-ws">>, <<"graphql-transport-ws">>}

\* on_connect that builds the session and never stores it in self.protocol.
OnConnectUnassigned(c, h, cfg, offered, fault) ==
    IF fault = "accept"
    THEN [endpoint |-> [c EXCEPT !.offered = offered], session |-> NoSession,
          heap |-> h, raised |-> TRUE]
    ELSE [endpoint |-> [c EXCEPT !.offered = offered, !.accepted = TRUE,
                                 !.subprotocol = ProtocolName],
          session |-> NoSession, heap |-> h, raised |-> fault = "setup"]

\* SubscriptionEndpoint.on_connect.  fault is where the environment makes it
\* raise: in websocket.accept, or after it while the session is set up
\* (get_graphql_config, copy.deepcopy), or nowhere.
OnConnect(c, h, cfg, offered, fault) ==
    IF fault = "accept"
    THEN [endpoint |-> [c EXCEPT !.offered = offered], session |-> NoSession,
          heap |-> h, raised |-> TRUE]
    ELSE IF fault = "setup"
    THEN [endpoint |-> [c EXCEPT !.offered = offered, !.accepted = TRUE,
                                 !.subprotocol = ProtocolName],
          session |-> NoSession, heap |-> h, raised |-> TRUE]
    ELSE LET copied == DeepCopy(h, cfg.context, ConnectionArena)
         IN [endpoint |-> [c EXCEPT !.offered = offered, !.accepted = TRUE,
                                    !.subprotocol = ProtocolName,
                                    !.protocol = "GraphQLWSProtocol"],
             session |-> NewSession(copied.ref), heap |-> copied.heap, raised |-> FALSE]

\* SubscriptionEndpoint.on_receive
OnReceive(c, s, data) ==
    IF c.protocol = None THEN [session |-> s, raised |-> TRUE]
    ELSE [session |-> ProtocolOnReceive(s, data), raised |-> FALSE]

\* on_disconnect that returns without telling the session.
OnDisconnectSilent(c, s, close_code) ==
    IF c.protocol = None THEN [session |-> s, raised |-> TRUE]
    ELSE [session |-> s, raised |-> FALSE]

\* SubscriptionEndpoint.on_disconnect
OnDisconnect(c, s, close_code) ==
    IF c.protocol = None THEN [session |-> s, raised |-> TRUE]
    ELSE [session |-> ProtocolOnDisconnect(s, close_code), raised |-> FALSE]

\* ------------------------------------------------------ websocket actions
\* WebSocketEndpoint.dispatch starts: on_connect runs before the read loop,
\* outside its try block.
Connect ==
    /\ conn.pc = "idle"
    /\ \E offered \in Offers, fault \in {"none", "accept", "setup"} :
          /\ FreeCount(heap, ConnectionArena) >= CopySize(heap, config.context)
          /\ LET r == OnConnect(NoConnection, heap, config, offered, fault)
             IN /\ conn' = [r.endpoint EXCEPT !.pc = IF r.raised THEN "failed" ELSE "loop"]
                /\ session' = r.session
                /\ heap' = r.heap
    /\ UNCHANGED <<config, configured, http, handled>>

\* The loop ends: `finally: await self.on_disconnect(websocket, close_code)`.
Leave(close_code, pc) ==
    LET r == OnDisconnect(conn, session, close_code)
    IN /\ session' = r.session
       /\ conn' = [conn EXCEPT !.pc = IF r.raised THEN "failed" ELSE pc,
                               !.close_code = close_code,
                               !.assertion = @ \/ r.raised]

\* The loop reads a frame, decodes it and hands it to on_receive.
Receive(messages) ==
    /\ conn.pc = "loop"
    /\ session.transport = "open"
    /\ conn.received < MaxRecv
    /\ \E data \in messages :
          /\ data.type = "start" => Len(session.tasks) < MaxTasks
          /\ LET r == OnReceive(conn, session, data)
             IN IF r.raised
                THEN /\ conn' = [conn EXCEPT !.pc = "failed", !.close_code = 1011,
                                             !.assertion = TRUE]
                     /\ UNCHANGED session
                ELSE /\ session' = r.session
                     /\ conn' = [conn EXCEPT !.received = @ + 1,
                                             !.late = @ \/ session.disconnects > 0]
    /\ UNCHANGED <<heap, config, configured, http, handled>>

\* The loop reads a frame that is not JSON: decode closes the socket with
\* 1003 and raises, and the loop ends with close code 1011.
ReceiveMalformed ==
    /\ conn.pc = "loop"
    /\ session.transport = "open"
    /\ conn.received < MaxRecv
    /\ Leave(1011, "failed")
    /\ UNCHANGED <<heap, config, configured, http, handled>>

\* websocket.receive() raises: the transport failed under the read.
ReadError ==
    /\ conn.pc = "loop"
    /\ Leave(1011, "failed")
    /\ UNCHANGED <<heap, config, configured, http, handled>>

\* The loop reads websocket.disconnect: the client left, or answered the
\* server's close.
\* (WS_1000_NORMAL_CLOSURE)
ReceiveDisconnect ==
    /\ conn.pc = "loop"
    /\ Leave(1000, "closed")
    /\ UNCHANGED <<heap, config, configured, http, handled>>

\* An operation's task resumes.
TaskRun(t) ==
    /\ t \in DOMAIN session.tasks
    /\ session.tasks[t].pc = "running"
    /\ \E event \in {"item", "end", "failure"} :
          /\ event = "item" => session.tasks[t].items < MaxItems
          /\ session' = TaskStep(session, t, event)
    /\ UNCHANGED <<heap, config, configured, http, handled, conn>>

\* A resolver of the connection's operations writes to the context the
\* session holds.
SessionTouch ==
    /\ session.state \in {"PENDING", "ACKNOWLEDGED"}
    /\ session.touches < MaxTouches
    /\ heap' \in Touched(heap, session.context)
    /\ session' = [session EXCEPT !.touches = @ + 1]
    /\ UNCHANGED <<config, configured, http, handled, conn>>

\* dispatch has returned or raised and every task has ended: the endpoint,
\* the session and the context it held are garbage.
Reap ==
    /\ conn.pc \in {"closed", "failed"}
    /\ \A t \in DOMAIN session.tasks : session.tasks[t].pc # "running"
    /\ heap' = IF session.state = "none" THEN heap ELSE Release(heap, session.context)
    /\ conn' = NoConnection
    /\ session' = NoSession
    /\ UNCHANGED <<config, configured, http, handled>>

\* The state after the application is configured and before any traffic.
InitWith(settings) ==
    /\ heap \in InitialHeaps
    /\ \E g \in settings : config = [context |-> ConfigContext, graphiql |-> g]
    /\ configured = DeepValue(heap, ConfigContext)
    /\ http = [r \in Slots |-> IdleSlot]
    /\ handled = <<>>
    /\ conn = NoConnection
    /\ session = NoSession

Init == InitWith(GraphiQLSettings)

InitNoGraphiQL == InitWith({[set |-> FALSE, path |-> None]})

\* The HTTP endpoint alone, every request.
HttpNext ==
    \/ Arrive(Requests)
    \/ \E r \in Slots : EngineReturn(r)
    \/ \E r \in Slots : Finish(r)

SpecHttp == Init /\ [][HttpNext]_vars

\* One websocket connection after another, every frame.
WsNext ==
    \/ Connect
    \/ Receive(ClientMessages)
    \/ ReceiveMalformed
    \/ ReadError
    \/ ReceiveDisconnect
    \/ \E t \in 1..MaxTasks : TaskRun(t)
    \/ Reap

SpecWs == InitNoGraphiQL /\ [][WsNext]_vars

\* Requests and connections interleaved, with what they do to their contexts.
\* The frames of a connection matter here only through the writes its
\* operations make to the session's context, which SessionTouch stands for.
Next ==
    \/ Arrive(ContextRequests)
    \/ \E r \in Slots : EngineReturn(r)
    \/ \E r \in Slots : Finish(r)
    \/ Connect
    \/ SessionTouch
    \/ ReadError
    \/ ReceiveDisconnect
    \/ Reap

Spec == InitNoGraphiQL /\ [][Next]_vars

\* =================================================================== claims
\* ---------------------------------------------------------------- HTTP
\* C1: every request that reached engine.execute is answered with a JSON body
\* that carries the result's data, with status 200 exactly when the result
\* has no errors and 400 exactly when it has, and with an errors field if and
\* only if the result has one.
C1_ResponseMatchesResult ==
    \A r \in Slots :
        http[r].pc = "responded" =>
            LET result == http[r].result
                response == http[r].response
            IN /\ response.type = "json"
               /\ response.content["data"] = result["data"]
               /\ (response.status = 200) <=> ~HasKey(result, "errors")
               /\ (response.status = 400) <=> HasKey(result, "errors")
               /\ HasKey(response.content, "errors") <=> HasKey(result, "errors")

\* An engine result with errors has been answered, with 400 and the errors.
C1_Witness ==
    \E r \in Slots :
        /\ http[r].pc = "responded"
        /\ HasKey(http[r].result, "errors")
        /\ http[r].response.status = 400
        /\ HasKey(http[r].response.content, "errors")
        /\ handled # <<>>

\* The body of the request holds a query: a JSON object with a query member,
\* or the raw text of an application/graphql body.
BodyHasQuery(request) ==
    LET json == JsonLoads(request.body)
    IN \/ json.ok /\ json.value.t = "dict" /\ HasKey(json.value.d, "query")
       \/ Contains(request.content_type, "application/graphql") /\ request.body # ""

NoQueryAnywhere(request) ==
    ~HasKey(request.query_params, "query") /\ ~BodyHasQuery(request)

InvalidQueryVariables(request) ==
    /\ HasKey(request.query_params, "variables")
    /\ ~JsonLoads(request.query_params["variables"]).ok

UnsupportedContentType(request) ==
    /\ ~Contains(request.content_type, "application/json")
    /\ ~Contains(request.content_type, "application/graphql")

IsResponse(outcome, status) ==
    outcome.kind = "response" /\ outcome.response.status = status

\* The request is one GraphQLEndpoint.dispatch hands to get or post.
ReachesHandler(request) == ~Contains(request.accept, "text/html")

C9_UnsupportedIs415 ==
    (/\ handled # <<>>
     /\ ReachesHandler(handled[1].request)
     /\ handled[1].request.method = "POST"
     /\ UnsupportedContentType(handled[1].request)) =>
        (IsResponse(handled[1].outcome, 415) /\ ~handled[1].executed)

\* C9 amended: a POST whose Content-Type is unsupported and whose query
\* string has no query parameter and no undecodable variables is answered
\* 415 and the engine is not executed for it.
C9_UnsupportedWithoutQueryIs415 ==
    (/\ handled # <<>>
     /\ ReachesHandler(handled[1].request)
     /\ handled[1].request.method = "POST"
     /\ UnsupportedContentType(handled[1].request)
     /\ ~HasKey(handled[1].request.query_params, "query")
     /\ ~InvalidQueryVariables(handled[1].request)) =>
        (IsResponse(handled[1].outcome, 415) /\ ~handled[1].executed)

\* A text/plain POST without a query has been answered 415.
C9_Witness ==
    /\ handled # <<>>
    /\ handled[1].request.method = "POST"
    /\ handled[1].request.content_type = TextPlain
    /\ ~HasKey(handled[1].request.query_params, "query")
    /\ IsResponse(handled[1].outcome, 415)
    /\ ~handled[1].executed

\* ------------------------------------------------------------- contexts
\* The shared configured context has the value it was configured with.
ConfigUnchanged == DeepValue(heap, config.context) = configured

\* ctx is a new object: nothing it reaches is reachable from config.context.
Fresh(ctx) == Reach(heap, ctx) \cap Reach(heap, config.context) = {}

\* The configured value with the transport-derived fields of slot r laid over it.
Overlaid(r) == Update(configured, [k \in {"req", "background"} |-> <<Overlay(r)[k]>>])

\* Every request inside engine.execute was handed a new copy of the base
\* configuration with its request handle and background-task sink laid over.
HttpContextsBuilt ==
    \A r \in Slots :
        http[r].pc = "executing" =>
            /\ Fresh(http[r].context)
            /\ DeepValue(heap, http[r].context) = Overlaid(r)

\* C2 as stated: the shared context is never changed, and the context handed
\* to the engine (HTTP) or to the session (websocket) is a new copy of the
\* base configuration with the request handle and the background-task sink
\* laid over it.
C2_EveryContextOverlaid ==
    /\ ConfigUnchanged
    /\ HttpContextsBuilt
    /\ session.state # "none" =>
          /\ Fresh(session.context)
          /\ {"req", "background"} \subseteq DOMAIN heap[session.context].dict

\* C2 amended: the shared context is never changed (no key added, removed or
\* rebound, at any depth), whatever requests and connections do to their
\* own contexts; the context handed to the engine for an HTTP request is a
\* new deep copy with the request handle and background-task sink laid
\* over it; the context handed to a websocket session is a new deep copy of
\* the base configuration with nothing laid over it.
C2_ConfigNeverMutated ==
    /\ ConfigUnchanged
    /\ HttpContextsBuilt
    /\ session.state # "none" =>
          /\ Fresh(session.context)
          /\ session.touches = 0 => DeepValue(heap, session.context) = configured

\* A request is inside engine.execute while a connection's resolver has
\* written to the connection's context, and a nested dict was copied.
C2_Witness ==
    /\ \E r \in Slots : http[r].pc = "executing"
    /\ session.state # "none"
    /\ session.touches > 0
    /\ DeepValue(heap, session.context) # configured
    /\ Cardinality(Reach(heap, config.context)) > 1

\* ----------------------------------------------------------- websocket
\* C3: a connection whose client did not offer the expected subprotocol is
\* rejected, and no session is ever constructed for it.
C3_UnofferedSubprotocolRejected ==
    (conn.pc # "idle" /\ ~Contains(conn.offered, ProtocolName)) =>
        (~conn.accepted /\ conn.protocol = None /\ session.state = "none")

\* C4: once an accepted connection's read fails or its stream ends, the
\* session's disconnect handling has run exactly once and the loop has
\* stopped: while the loop runs it has not run, and no frame was handed to
\* the session after it.
C4_DisconnectOnceThenStop ==
    /\ ~conn.late
    /\ conn.pc = "loop" => session.disconnects = 0
    /\ (conn.pc \in {"closed", "failed"} /\ conn.protocol # None) =>
          (session.disconnects = 1 /\ session.state = "TERMINATED")

\* A read failed after a frame had been dispatched, and the session's
\* disconnect handling ran.
C4_Witness ==
    /\ conn.pc = "failed"
    /\ conn.close_code = 1011
    /\ conn.received > 0
    /\ session.disconnects = 1
    /\ session.state = "TERMINATED"

\* The operations of the connection that are live for id x.
Live(x) ==
    {t \in DOMAIN session.tasks :
        /\ session.tasks[t].id = x
        /\ session.tasks[t].pc = "running"
        /\ ~session.tasks[t].cancel}

\* The step is the session's handling of message, read by the loop.
Handles(message) ==
    /\ conn.pc = "loop"
    /\ conn'.pc = "loop"
    /\ conn'.received = conn.received + 1
    /\ session' = OnReceive(conn, session, message).session

DuplicateError(x) == Frame("error", x, "duplicate operation id")

\* C5: there is at most one live operation per operation id of the
\* connection, and a `start` for an id that is registered yields exactly one
\* `error` frame for that id and changes neither the registry nor any task.
C5_DuplicateStart ==
    /\ [](\A x \in OpIds : Cardinality(Live(x)) <= 1)
    /\ [][\A x \in OpIds :
            (/\ session.state = "ACKNOWLEDGED"
             /\ session.registry[x] # 0
             /\ Handles(Message("start", x))) =>
                /\ session'.sent = Append(session.sent, DuplicateError(x))
                /\ session'.tasks = session.tasks
                /\ session'.registry = session.registry]_vars

\* A duplicate `start` was answered with one error frame, and the original
\* operation then delivered a result.
C5_Witness ==
    \E x \in OpIds :
        \E i \in DOMAIN session.sent, j \in DOMAIN session.sent :
            /\ i < j
            /\ session.sent[i] = DuplicateError(x)
            /\ session.sent[j] = Frame("data", x, "result")
            /\ Cardinality({k \in DOMAIN session.sent : session.sent[k] = DuplicateError(x)}) = 1
            /\ Cardinality(Live(x)) = 1

\* C6: `connection_terminate` in a non-terminal state leaves the session
\* TERMINATED with an empty registry; a TERMINATED session has an empty
\* registry and emits no further frame, whatever its operations' tasks do.
C6_TerminateSilences ==
    /\ [](session.state = "TERMINATED" => Registered(session) = {})
    /\ [][(/\ session.state \in {"PENDING", "ACKNOWLEDGED"}
           /\ Handles(Message("connection_terminate", None))) =>
              (/\ session'.state = "TERMINATED"
               /\ Registered(session') = {}
               /\ session'.sent = session.sent)]_vars
    /\ [][(session.state = "TERMINATED" /\ session'.state = "TERMINATED") =>
              session'.sent = session.sent]_vars

\* After `connection_terminate`, with the loop still to read the disconnect,
\* the task of an operation that had delivered a result has resumed and
\* ended without a frame.
C6_Witness ==
    /\ session.state = "TERMINATED"
    /\ conn.pc = "loop"
    /\ session.disconnects = 0
    /\ \E t \in DOMAIN session.tasks :
          /\ session.tasks[t].pc = "cancelled"
          /\ session.tasks[t].items > 0
          /\ session.tasks[t].terminals = 0

C10_ProtocolSetWhenUsed == ~conn.assertion

\* on_connect raised after accepting the socket and before setting the
\* protocol, and dispatch ended without running on_disconnect.
C10_Witness ==
    /\ conn.pc = "failed"
    /\ conn.accepted
    /\ conn.protocol = None
    /\ session.disconnects = 0
    /\ ~conn.assertion

=============================================================================
